---- MODULE Spec2Model ----
(***************************************************************************)
(* Model of src/custom/app.rs (vdash): the log-line decoder, the activity  *)
(* and state extraction, the marching-bucket timelines and VaultMetrics.   *)
(*                                                                         *)
(* Text is modelled as a sequence of tokens.  Every token is a literal run *)
(* of characters (a word, a separator, one of the fixed patterns the code  *)
(* searches for), so that str::find, starts_with, slicing, trim_start and  *)
(* parse::<usize> are computed on the sequence the way the code computes   *)
(* them on the characters.  Instants are whole seconds counted from        *)
(* 2020-07-08T19:00:00+01:00.  Option<T> is a sequence of length 0 or 1.   *)
(* The diagnostic strings (parser_output) and the --debug-parser file are  *)
(* not part of the model.                                                  *)
(*                                                                         *)
(* metrics is one VaultMetrics driven through gather_metrics on its own,   *)
(* lastLine the line it was given last and result what the call returned.  *)
(* app is the App with its LogMonitors (each with a VaultMetrics of its     *)
(* own), and appended records, for every LogMonitor, the lines given to    *)
(* append_to_content in the order they arrived.                            *)
(***************************************************************************)
EXTENDS Integers, Sequences, FiniteSets, TLC

VARIABLES metrics, lastLine, result, app, appended

vars == <<metrics, lastLine, result, app, appended>>

\* ---------------------------------------------------------------- bounds
\* opt.timeline_steps: the number of buckets every BucketSet may hold
TimelineSteps == 2
\* the number of decoded lines a behaviour ingests
MaxHistory == 3
\* opt.lines_max: the number of lines a LogMonitor keeps for display
MaxContent == 2
\* the number of lines a behaviour appends to one LogMonitor
MaxAppended == 4

\* ------------------------------------------------------------ Option<T>
None == <<>>
Some(x) == <<x>>
is_none(o) == o = <<>>
unwrap(o) == o[1]

\* ------------------------------------------------------------- durations
ONE_MINUTE_NAME == "1 minute"
ONE_HOUR_NAME == "1 hour"
ONE_DAY_NAME == "1 day"
ONE_TWELTH_NAME == "1 twelth year"
ONE_YEAR_NAME == "1 year"

\* chrono::Duration in seconds
DurationMinutes(n) == n * 60
DurationHours(n) == n * 3600
DurationDays(n) == n * 86400

BucketSetNames ==
  {ONE_MINUTE_NAME, ONE_HOUR_NAME, ONE_DAY_NAME, ONE_TWELTH_NAME, ONE_YEAR_NAME}

\* ------------------------------------------------------------- BucketSet
BucketSet_new(bucket_duration, max_buckets) ==
  [ bucket_duration |-> bucket_duration,
    max_buckets     |-> max_buckets,
    total_duration  |-> bucket_duration * max_buckets,
    bucket_time     |-> None,
    buckets         |-> <<0>> ]

\* StartNewBucket with a boundary that already belongs to the next bucket
StartNewBucket_AtBoundary(end_time, new_time) == end_time <= new_time

\* while end_time.lt(&new_time)
StartNewBucket(end_time, new_time) == end_time < new_time

\* PushBucket without the removal of the oldest bucket
PushBucket_NoEviction(buckets, max_buckets) == Append(buckets, 0)

\* PushBucket that gives up the newest bucket instead of the oldest
PushBucket_DropNewest(buckets, max_buckets) ==
  LET pushed == Append(buckets, 0)
  IN  IF Len(pushed) > max_buckets THEN SubSeq(pushed, 1, max_buckets) ELSE pushed

\* bs.buckets.push(0); if bs.buckets.len() > bs.max_buckets { bs.buckets.remove(0); }
PushBucket(buckets, max_buckets) ==
  LET pushed == Append(buckets, 0)
  IN  IF Len(pushed) > max_buckets THEN Tail(pushed) ELSE pushed

RECURSIVE MarchBuckets(_, _)

\* MarchBuckets with an if in place of the while: one bucket a call
MarchBuckets_Once(bs, new_time) ==
  LET end_time == unwrap(bs.bucket_time) + bs.bucket_duration
  IN  IF StartNewBucket(end_time, new_time)
      THEN [bs EXCEPT !.bucket_time = Some(end_time),
                      !.buckets = PushBucket(bs.buckets, bs.max_buckets)]
      ELSE bs

\* MarchBuckets that answers a gap of any length with one new bucket
MarchBuckets_Collapse(bs, new_time) ==
  LET end_time == unwrap(bs.bucket_time) + bs.bucket_duration
      crossed == (new_time - unwrap(bs.bucket_time) - 1) \div bs.bucket_duration
  IN  IF StartNewBucket(end_time, new_time)
      THEN [bs EXCEPT !.bucket_time = Some(unwrap(@) + crossed * bs.bucket_duration),
                      !.buckets = PushBucket(bs.buckets, bs.max_buckets)]
      ELSE bs

\* the while loop of update_current_time on one anchored BucketSet
MarchBuckets(bs, new_time) ==
  LET end_time == unwrap(bs.bucket_time) + bs.bucket_duration
  IN  IF StartNewBucket(end_time, new_time)
      THEN MarchBuckets([bs EXCEPT !.bucket_time = Some(end_time),
                                   !.buckets = PushBucket(bs.buckets, bs.max_buckets)],
                        new_time)
      ELSE bs

\* UpdateBucketSet that anchors again on a time before the current bucket
UpdateBucketSet_Reanchor(bs, new_time) ==
  IF ~is_none(bs.bucket_time)
  THEN IF ~is_none(new_time)
       THEN IF unwrap(new_time) < unwrap(bs.bucket_time)
            THEN [bs EXCEPT !.bucket_time = new_time]
            ELSE MarchBuckets(bs, unwrap(new_time))
       ELSE bs
  ELSE [bs EXCEPT !.bucket_time = new_time]

\* the body of the for loop of update_current_time; new_time is an Option
UpdateBucketSet(bs, new_time) ==
  IF ~is_none(bs.bucket_time)
  THEN IF ~is_none(new_time) THEN MarchBuckets(bs, unwrap(new_time)) ELSE bs
  ELSE [bs EXCEPT !.bucket_time = new_time]

\* IncrementBucketSet on the oldest bucket in place of the current one
IncrementBucketSet_First(bs) == [bs EXCEPT !.buckets[1] = @ + 1]

\* the body of the for loop of TimelineSet::increment_value
IncrementBucketSet(bs) ==
  LET index == Len(bs.buckets) - 1
  IN  [bs EXCEPT !.buckets[index + 1] = @ + 1]

\* ----------------------------------------------------------- TimelineSet
TimelineSet_new(name) == [ name |-> name, bucket_sets |-> <<>> ]

add_bucket_set(tl, name, duration, max_buckets) ==
  [tl EXCEPT !.bucket_sets = (name :> BucketSet_new(duration, max_buckets)) @@ @]

update_current_time(tl, new_time) ==
  [tl EXCEPT !.bucket_sets =
     [name \in DOMAIN tl.bucket_sets |-> UpdateBucketSet(tl.bucket_sets[name], new_time)]]

increment_value(tl) ==
  [tl EXCEPT !.bucket_sets =
     [name \in DOMAIN tl.bucket_sets |-> IncrementBucketSet(tl.bucket_sets[name])]]

\* the five add_bucket_set calls of VaultMetrics::new on one timeline
NewTimeline(name, timeline_steps) ==
  add_bucket_set(
    add_bucket_set(
      add_bucket_set(
        add_bucket_set(
          add_bucket_set(TimelineSet_new(name),
                         ONE_MINUTE_NAME, DurationMinutes(1), timeline_steps),
          ONE_HOUR_NAME, DurationHours(1), timeline_steps),
        ONE_DAY_NAME, DurationDays(1), timeline_steps),
      ONE_TWELTH_NAME, DurationDays(365 \div 12), timeline_steps),
    ONE_YEAR_NAME, DurationDays(365), timeline_steps)

\* ------------------------------------------------------------------ text
SPACE == " "
COMMA == ","
RUNNING_PREFIX == "Running safe-vault "
RESPONSE_PATTERN == "Responded to our data handlers with: Response { response: Response::"
ELDERS_PREFIX == "No. of Elders:"
ADULTS_PREFIX == "No. of Adults:"
PROMOTED_PREFIX == "Vault promoted to "
INITIALIZING_PREFIX == "Initializing new Vault as "

\* tokens the class [A-Z]{4} of LOG_LINE_PATTERN accepts
Upper4 == {"INFO", "WARN"}

\* DateTime::<FixedOffset>::parse_from_rfc3339 on the time strings of the
\* model: the instant, in seconds after 2020-07-08T19:00:00+01:00
Rfc3339 ==
  ("2020-07-08T19:00:00.000000000+01:00" :> 0) @@
  ("2020-07-08T19:01:00.000000000+01:00" :> 60) @@
  ("2020-07-08T18:01:00.000000000+00:00" :> 60) @@
  ("2020-07-08T19:01:01.000000000+01:00" :> 61) @@
  ("2020-07-08T19:02:01.000000000+01:00" :> 121) @@
  ("2020-07-08T19:03:01.000000000+01:00" :> 181) @@
  ("2020-07-08T19:04:01.000000000+01:00" :> 241) @@
  ("2020-07-08T20:00:01.000000000+01:00" :> 3601)

\* a 35 character field that is not a date and time
BadTimeString == "2020-07-08T25:61:61.000000000+01:00"

\* tokens the class [^ ]{35} accepts
NoSpace35 == DOMAIN Rfc3339 \cup {BadTimeString}

\* tokens the group \[.*\] accepts
Bracketed == {"[src/bin/safe_vault.rs:114]"}

parse_from_rfc3339(time_string) ==
  IF time_string \in DOMAIN Rfc3339 THEN Some(Rfc3339[time_string]) ELSE None

\* str::parse::<usize> on the digit strings of the model
UsizeDigits == ("7" :> 7) @@ ("12" :> 12)

\* content.parse::<usize>(): the whole of content has to be the number
parse_usize_str(content) ==
  IF Len(content) = 1 /\ content[1] \in DOMAIN UsizeDigits
  THEN Some(UsizeDigits[content[1]])
  ELSE None

\* str::find: the position of the first occurrence, counted from 1
find(content, pattern) ==
  LET hits == {i \in 1..Len(content) : content[i] = pattern}
  IN  IF hits = {} THEN None
      ELSE Some(CHOOSE i \in hits : \A j \in hits : i <= j)

\* content[position..], position being the number of tokens skipped
slice_from(content, position) == SubSeq(content, position + 1, Len(content))

starts_with(content, prefix) == Len(content) >= 1 /\ content[1] = prefix

RECURSIVE trim_start(_)
trim_start(content) ==
  IF Len(content) >= 1 /\ content[1] = SPACE THEN trim_start(Tail(content)) ELSE content

\* ------------------------------------------------------------- LogEntry
\* LOG_LINE_PATTERN without the upper case of the category
LOG_LINE_PATTERN_AnyCase(line) ==
  IF /\ Len(line) >= 6
     /\ line[2] = SPACE
     /\ line[3] \in NoSpace35
     /\ line[4] = SPACE
     /\ line[5] \in Bracketed
     /\ line[6] = SPACE
  THEN Some([ category    |-> line[1],
              time_string |-> line[3],
              source      |-> line[5],
              message     |-> slice_from(line, 6) ])
  ELSE None

\* LOG_LINE_PATTERN.captures(line)
LOG_LINE_PATTERN(line) ==
  IF /\ Len(line) >= 6
     /\ line[1] \in Upper4
     /\ line[2] = SPACE
     /\ line[3] \in NoSpace35
     /\ line[4] = SPACE
     /\ line[5] \in Bracketed
     /\ line[6] = SPACE
  THEN Some([ category    |-> line[1],
              time_string |-> line[3],
              source      |-> line[5],
              message     |-> slice_from(line, 6) ])
  ELSE None

\* parse_logfile_line that gives up the line when its time does not parse
parse_logfile_line_RejectBadTime(line) ==
  LET captures == LOG_LINE_PATTERN(line)
  IN  IF is_none(captures) THEN None
      ELSE IF is_none(parse_from_rfc3339(unwrap(captures).time_string)) THEN None
      ELSE Some([ logstring |-> line,
                  category  |-> unwrap(captures).category,
                  time      |-> parse_from_rfc3339(unwrap(captures).time_string),
                  source    |-> unwrap(captures).source,
                  message   |-> unwrap(captures).message ])

parse_logfile_line(line) ==
  LET captures == LOG_LINE_PATTERN(line)
  IN  IF is_none(captures) THEN None
      ELSE Some([ logstring |-> line,
                  category  |-> unwrap(captures).category,
                  time      |-> parse_from_rfc3339(unwrap(captures).time_string),
                  source    |-> unwrap(captures).source,
                  message   |-> unwrap(captures).message ])

decode(line) == IF line = <<>> THEN None ELSE parse_logfile_line(line)

ActivityEntry_new(entry, activity) ==
  [ activity  |-> activity,
    logstring |-> entry.logstring,
    category  |-> entry.category,
    time      |-> entry.time,
    source    |-> entry.source ]

\* --------------------------------------------------------- VaultMetrics
VaultMetrics_new(timeline_steps) ==
  [ vault_started    |-> None,
    running_message  |-> None,
    running_version  |-> None,
    activity_history |-> <<>>,
    log_history      |-> <<>>,
    most_recent      |-> None,
    puts_timeline    |-> NewTimeline("PUTS", timeline_steps),
    gets_timeline    |-> NewTimeline("GETS", timeline_steps),
    errors_timeline  |-> NewTimeline("ERRORS", timeline_steps),
    activity_gets    |-> 0,
    activity_puts    |-> 0,
    activity_errors  |-> 0,
    activity_other   |-> 0,
    agebracket       |-> "Infant",
    adults           |-> 0,
    elders           |-> 0 ]

\* reset_metrics that clears the activity history with the counters
reset_metrics_ClearsHistory(self) ==
  [self EXCEPT !.agebracket = "Infant",
               !.adults = 0,
               !.elders = 0,
               !.activity_gets = 0,
               !.activity_puts = 0,
               !.activity_errors = 0,
               !.activity_other = 0,
               !.activity_history = <<>>]

reset_metrics(self) ==
  [self EXCEPT !.agebracket = "Infant",
               !.adults = 0,
               !.elders = 0,
               !.activity_gets = 0,
               !.activity_puts = 0,
               !.activity_errors = 0,
               !.activity_other = 0]

\* parse_start that leaves the reset to a later step that never comes
parse_start_NoReset(self, line) ==
  IF starts_with(line, RUNNING_PREFIX)
  THEN [ self |-> [self EXCEPT !.running_message = Some(line),
                               !.running_version = Some(slice_from(line, 1)),
                               !.vault_started = self.most_recent],
         ret  |-> Some([ logstring |-> line,
                         category  |-> "START",
                         time      |-> self.most_recent,
                         source    |-> "",
                         message   |-> line ]) ]
  ELSE [ self |-> self, ret |-> None ]

\* returns the metrics and the Option<LogEntry>
parse_start(self, line) ==
  IF starts_with(line, RUNNING_PREFIX)
  THEN LET captured == [self EXCEPT !.running_message = Some(line),
                                    !.running_version = Some(slice_from(line, 1)),
                                    !.vault_started = self.most_recent]
       IN  [ self |-> reset_metrics(captured),
             ret  |-> Some([ logstring |-> line,
                             category  |-> "START",
                             time      |-> self.most_recent,
                             source    |-> "",
                             message   |-> line ]) ]
  ELSE [ self |-> self, ret |-> None ]

\* count_get that marks the puts timeline
count_get_WrongTimeline(self) ==
  [self EXCEPT !.activity_gets = @ + 1,
               !.puts_timeline = increment_value(@)]

count_get(self) ==
  [self EXCEPT !.activity_gets = @ + 1,
               !.gets_timeline = increment_value(@)]

\* count_put that leaves the puts timeline alone
count_put_CounterOnly(self) == [self EXCEPT !.activity_puts = @ + 1]

count_put(self) ==
  [self EXCEPT !.activity_puts = @ + 1,
               !.puts_timeline = increment_value(@)]

count_error(self) ==
  [self EXCEPT !.activity_errors = @ + 1,
               !.errors_timeline = increment_value(@)]

\* parse_activity_counts that takes every other response for an error
parse_activity_counts_OtherAsError(self, entry) ==
  IF starts_with(entry.activity, "Get") THEN count_get(self)
  ELSE IF starts_with(entry.activity, "Mut") THEN count_put(self)
  ELSE count_error(self)

parse_activity_counts(self, entry) ==
  IF starts_with(entry.activity, "Get") THEN count_get(self)
  ELSE IF starts_with(entry.activity, "Mut") THEN count_put(self)
  ELSE [self EXCEPT !.activity_other = @ + 1]

\* parse_data_response without the test for an empty response
parse_data_response_CountsEmpty(self, entry, pattern) ==
  LET found == find(entry.logstring, pattern)
  IN  IF is_none(found) THEN [ self |-> self, ret |-> FALSE ]
      ELSE
        LET response_start == unwrap(found)
            response_end == find(slice_from(entry.logstring, response_start), COMMA)
            response == IF is_none(response_end) THEN <<>>
                        ELSE SubSeq(entry.logstring, response_start + 1,
                                    response_start + unwrap(response_end) - 1)
            activity_entry == ActivityEntry_new(entry, response)
        IN  [ self |-> [parse_activity_counts(self, activity_entry)
                          EXCEPT !.activity_history = Append(@, activity_entry)],
              ret  |-> TRUE ]

\* parse_data_response that counts a response without a label as an error
parse_data_response_FailureAsError(self, entry, pattern) ==
  LET found == find(entry.logstring, pattern)
  IN  IF is_none(found) THEN [ self |-> self, ret |-> FALSE ]
      ELSE
        LET response_start == unwrap(found)
            response_end == find(slice_from(entry.logstring, response_start), COMMA)
            response == IF is_none(response_end) THEN <<>>
                        ELSE SubSeq(entry.logstring, response_start + 1,
                                    response_start + unwrap(response_end) - 1)
            activity_entry == ActivityEntry_new(entry, response)
        IN  IF response # <<>>
            THEN [ self |-> [parse_activity_counts(self, activity_entry)
                               EXCEPT !.activity_history = Append(@, activity_entry)],
                   ret  |-> TRUE ]
            ELSE [ self |-> count_error(self), ret |-> TRUE ]

\* returns the metrics and the bool
parse_data_response(self, entry, pattern) ==
  LET found == find(entry.logstring, pattern)
  IN  IF is_none(found) THEN [ self |-> self, ret |-> FALSE ]
      ELSE
        LET response_start == unwrap(found)
            response_end == find(slice_from(entry.logstring, response_start), COMMA)
            response == IF is_none(response_end) THEN <<>>
                        ELSE SubSeq(entry.logstring, response_start + 1,
                                    response_start + unwrap(response_end) - 1)
            activity_entry == ActivityEntry_new(entry, response)
        IN  IF response # <<>>
            THEN [ self |-> [parse_activity_counts(self, activity_entry)
                               EXCEPT !.activity_history = Append(@, activity_entry)],
                   ret  |-> TRUE ]
            ELSE [ self |-> self, ret |-> TRUE ]

\* parse_usize that takes a payload that does not parse for 0
parse_usize_ZeroOnError(prefix, content) ==
  LET position == find(content, prefix)
  IN  IF is_none(position) THEN None
      ELSE IF is_none(parse_usize_str(slice_from(content, unwrap(position)))) THEN Some(0)
      ELSE parse_usize_str(slice_from(content, unwrap(position)))

parse_usize(prefix, content) ==
  LET position == find(content, prefix)
  IN  IF is_none(position) THEN None
      ELSE parse_usize_str(slice_from(content, unwrap(position)))

\* splitn(1, " ") yields the whole of the trimmed content as its one item
parse_word(prefix, content) ==
  IF is_none(find(content, prefix)) THEN None ELSE Some(trim_start(content))

\* the match on agebracket.as_str()
AgebracketOf(word) ==
  IF word = <<"Infant">> THEN "Infant"
  ELSE IF word = <<"Adult">> THEN "Adult"
  ELSE IF word = <<"Elder">> THEN "Elder"
  ELSE "Unknown"

\* Option::or
or(a, b) == IF is_none(a) THEN b ELSE a

\* returns the metrics and the bool
parse_states(self, entry) ==
  LET elders == parse_usize(ELDERS_PREFIX, entry.logstring)
      adults == parse_usize(ADULTS_PREFIX, entry.logstring)
      agebracket == or(parse_word(PROMOTED_PREFIX, entry.logstring),
                       parse_word(INITIALIZING_PREFIX, entry.logstring))
  IN  IF ~is_none(elders)
      THEN [ self |-> [self EXCEPT !.elders = unwrap(elders)], ret |-> TRUE ]
      ELSE IF ~is_none(adults)
      THEN [ self |-> [self EXCEPT !.adults = unwrap(adults)], ret |-> TRUE ]
      ELSE IF ~is_none(agebracket)
      THEN [ self |-> [self EXCEPT !.agebracket = AgebracketOf(unwrap(agebracket))],
             ret  |-> TRUE ]
      ELSE [ self |-> self, ret |-> FALSE ]

\* process_logfile_entry with | in place of ||: parse_states is always run
process_logfile_entry_NoShortCircuit(self, entry) ==
  LET responded == parse_data_response(self, entry, RESPONSE_PATTERN)
      stated == parse_states(responded.self, entry)
  IN  [ self |-> stated.self, ret |-> responded.ret \/ stated.ret ]

\* returns the metrics and the bool
process_logfile_entry(self, entry) ==
  LET responded == parse_data_response(self, entry, RESPONSE_PATTERN)
  IN  IF responded.ret THEN responded ELSE parse_states(self, entry)

\* LogEntry::decode(line).or_else(|| self.parse_start(line))
DecodeOrStart(self, line) ==
  LET decoded == decode(line)
  IN  IF is_none(decoded) THEN parse_start(self, line)
      ELSE [ self |-> self, ret |-> decoded ]

\* BackfillTime that takes the time of every entry for the most recent one
BackfillTime_Overwrite(self, entry) ==
  [ self  |-> [self EXCEPT !.most_recent = entry.time],
    entry |-> IF is_none(entry.time) THEN [entry EXCEPT !.time = self.most_recent]
              ELSE entry ]

\* if entry.time.is_none() { entry.time = self.most_recent } else { self.most_recent = entry.time }
BackfillTime(self, entry) ==
  IF is_none(entry.time)
  THEN [ self |-> self, entry |-> [entry EXCEPT !.time = self.most_recent] ]
  ELSE [ self |-> [self EXCEPT !.most_recent = entry.time], entry |-> entry ]

\* the loop over the three timelines in gather_metrics
\* UpdateTimelines that leaves the errors timeline where it was
UpdateTimelines_NoErrors(self) ==
  [self EXCEPT !.puts_timeline = update_current_time(@, self.most_recent),
               !.gets_timeline = update_current_time(@, self.most_recent)]

UpdateTimelines(self) ==
  [self EXCEPT !.puts_timeline = update_current_time(@, self.most_recent),
               !.gets_timeline = update_current_time(@, self.most_recent),
               !.errors_timeline = update_current_time(@, self.most_recent)]

\* the metrics as process_logfile_entry finds them, and the entry it is given
BeforeProcess(self, line) ==
  LET started == DecodeOrStart(self, line)
      filled == BackfillTime(started.self, unwrap(started.ret))
  IN  [ self |-> UpdateTimelines(filled.self), entry |-> filled.entry ]

gather_metrics(self, line) ==
  IF is_none(DecodeOrStart(self, line).ret) THEN self
  ELSE LET before == BeforeProcess(self, line)
           processed == process_logfile_entry(before.self, before.entry)
       IN  [processed.self EXCEPT !.log_history = Append(@, before.entry)]

\* ----------------------------------------------------------------- lines
\* "INFO <time> [src/bin/safe_vault.rs:114] "
LineHead(time_string) ==
  <<"INFO", SPACE, time_string, SPACE, "[src/bin/safe_vault.rs:114]", SPACE>>

T0 == "2020-07-08T19:00:00.000000000+01:00"
T61 == "2020-07-08T19:01:01.000000000+01:00"
T241 == "2020-07-08T19:04:01.000000000+01:00"
T60Utc == "2020-07-08T18:01:00.000000000+00:00"

PlainText == <<"starting", SPACE, "up">>
GetText == <<"552f45..:", SPACE, RESPONSE_PATTERN, "Get", "Success", COMMA, SPACE, "requester">>
MutText == <<"552f45..:", SPACE, RESPONSE_PATTERN, "Mut", "ationSuccess", COMMA, SPACE, "requester">>
OtherText == <<"552f45..:", SPACE, RESPONSE_PATTERN, "Transaction", COMMA, SPACE, "requester">>
EmptyLabelText == <<RESPONSE_PATTERN, COMMA, SPACE, "requester">>
NoCommaText == <<RESPONSE_PATTERN, "Get", "Success">>
EldersText == <<ELDERS_PREFIX, "7">>
EldersSpaceText == <<ELDERS_PREFIX, SPACE, "7">>
AdultsText == <<ADULTS_PREFIX, "12">>
PromotedText == <<PROMOTED_PREFIX, "Adult">>

\* lines of the primary grammar with a time
TimedLines ==
  {LineHead(t) \o text : t \in {T0, T61}, text \in {PlainText, GetText}}
    \cup {LineHead(T61) \o text : text \in {MutText, OtherText, EmptyLabelText, NoCommaText,
                                            EldersText, EldersSpaceText, AdultsText,
                                            PromotedText}}

\* lines of the primary grammar whose time field is not a time
UntimedLines == {LineHead(BadTimeString) \o text : text \in {PlainText, GetText}}

\* lines of the process start fallback
StartLines ==
  { <<RUNNING_PREFIX, "v0.24.0">>,
    <<RUNNING_PREFIX, "v0.24.0", SPACE>> \o GetText,
    <<RUNNING_PREFIX>> \o EldersText }

\* lines of neither grammar
OtherLines ==
  { <<>>,
    <<"info", SPACE, T61, SPACE, "[src/bin/safe_vault.rs:114]", SPACE>> \o GetText,
    <<"INFO", SPACE, "19:01:01", SPACE, "[src/bin/safe_vault.rs:114]", SPACE>> \o EldersText,
    <<SPACE, RUNNING_PREFIX, "v0.24.0">>,
    PromotedText }

Lines == TimedLines \cup UntimedLines \cup StartLines \cup OtherLines

\* lines that differ in their time: on, before and after the bucket boundaries
ClockLines ==
  {LineHead(t) \o PlainText : t \in DOMAIN Rfc3339 \ {T241, T60Utc}}
    \cup {LineHead(t) \o GetText : t \in {T0, T61}}
    \cup {LineHead(BadTimeString) \o PlainText, <<RUNNING_PREFIX, "v0.24.0">>, <<>>}

AdultsBadText == <<ADULTS_PREFIX, SPACE, "many">>
InitializingText == <<INITIALIZING_PREFIX, "Elder">>
PromotedInfantText == <<PROMOTED_PREFIX, "Infant">>
PromotedUnknownText == <<PROMOTED_PREFIX, "Senior">>
GetThenEldersText == GetText \o <<SPACE, ELDERS_PREFIX, "7">>
AdultsThenEldersText == <<ADULTS_PREFIX, "12", SPACE, ELDERS_PREFIX, "7">>
EldersBadThenAdultsText == <<ELDERS_PREFIX, "many", SPACE, ADULTS_PREFIX, "12">>
PromotedThenEldersText == <<PROMOTED_PREFIX, "Adult", SPACE, ELDERS_PREFIX, "7">>
PromotedThenAdultsText == <<PROMOTED_PREFIX, "Elder", SPACE, ADULTS_PREFIX, "12">>

\* lines of the primary grammar that announce member counts and vault stages,
\* alone, malformed and together with one another
StateTexts ==
  {PlainText, EldersText, EldersSpaceText, AdultsText, AdultsBadText, PromotedText,
   InitializingText, PromotedInfantText, PromotedUnknownText, GetThenEldersText,
   AdultsThenEldersText, EldersBadThenAdultsText, PromotedThenEldersText,
   PromotedThenAdultsText}

StateLines ==
  {LineHead(T61) \o text : text \in StateTexts} \cup {<<RUNNING_PREFIX, "v0.24.0">>, <<>>}

\* lines of the logfiles of the App: one that is decoded and counted and one
\* that is not decoded
AppLines == {LineHead(T0) \o GetText, <<>>}

\* ------------------------------------------------------------ LogMonitor
\* StatefulList::with_items: the items and the index selected, none at first
StatefulList_with_items(items) == [ items |-> items, state |-> None ]

LogMonitor_new(index, f, max_lines) ==
  [ index       |-> index,
    logfile     |-> f,
    max_content |-> max_lines,
    metrics     |-> VaultMetrics_new(TimelineSteps),
    content     |-> StatefulList_with_items(<<>>),
    has_focus   |-> FALSE ]

\* Vec::split_off(at): the elements from index at (counted from 0) to the end
split_off(items, at) == SubSeq(items, at + 1, Len(items))

\* _append_to_content that keeps the oldest max_content lines
_append_to_content_KeepOldest(self, text) ==
  LET pushed == Append(self.content.items, text)
      len == Len(pushed)
  IN  IF len > self.max_content
      THEN [self EXCEPT !.content.items = SubSeq(pushed, 1, self.max_content)]
      ELSE [self EXCEPT !.content.items = pushed,
                        !.content.state = Some(len - 1)]

_append_to_content(self, text) ==
  LET pushed == Append(self.content.items, text)
      len == Len(pushed)
  IN  IF len > self.max_content
      THEN [self EXCEPT !.content.items = split_off(pushed, len - self.max_content)]
      ELSE [self EXCEPT !.content.items = pushed,
                        !.content.state = Some(len - 1)]

line_filter(self, line) == TRUE

append_to_content(self, text) ==
  IF line_filter(self, text)
  THEN _append_to_content([self EXCEPT !.metrics = gather_metrics(@, text)], text)
  ELSE self

\* ------------------------------------------------------------------- App
DEBUG_WINDOW_NAME == "Debug Window"

\* opt.files: the logfiles named on the command line
LogfileNames == <<"a.log", "b.log">>

\* a name that is neither a logfile of the App nor the debug window
UnknownName == "c.log"

\* the index (from 0) of the first element of names equal to name, or
\* Len(names) when there is none
Position(names, name) ==
  IF \E i \in 1..Len(names) : names[i] = name
  THEN (CHOOSE i \in 1..Len(names) :
          /\ names[i] = name
          /\ \A j \in 1..(i - 1) : names[j] # name) - 1
  ELSE Len(names)

set_logfile_focus(self, logfile_name) ==
  LET faded == IF self.logfile_with_focus \in DOMAIN self.monitors
               THEN [self EXCEPT !.monitors[self.logfile_with_focus].has_focus = FALSE,
                                 !.logfile_with_focus = ""]
               ELSE self
  IN  IF logfile_name = DEBUG_WINDOW_NAME
      THEN [faded EXCEPT !.dash_state.debug_window_has_focus = TRUE,
                         !.logfile_with_focus = logfile_name]
      ELSE LET nodebug == [faded EXCEPT !.dash_state.debug_window_has_focus = FALSE]
           IN  IF logfile_name \in DOMAIN nodebug.monitors
               THEN [nodebug EXCEPT !.monitors[logfile_name].has_focus = TRUE,
                                    !.logfile_with_focus = logfile_name]
               ELSE nodebug

change_focus_next(self) ==
  LET len == Len(self.logfile_names)
      i == Position(self.logfile_names, self.logfile_with_focus)
      next_i == IF i < len /\ i < len - 1 THEN i + 1 ELSE 0
  IN  IF next_i = 0 /\ self.opt.debug_window /\ self.logfile_with_focus # DEBUG_WINDOW_NAME
      THEN set_logfile_focus(self, DEBUG_WINDOW_NAME)
      ELSE set_logfile_focus(self, self.logfile_names[next_i + 1])

change_focus_previous(self) ==
  LET len == Len(self.logfile_names)
      i == Position(self.logfile_names, self.logfile_with_focus)
      previous_i == IF i < len /\ i > 0 THEN i - 1 ELSE len - 1
  IN  IF /\ self.opt.debug_window
         /\ previous_i = len - 1
         /\ self.logfile_with_focus # DEBUG_WINDOW_NAME
      THEN set_logfile_focus(self, DEBUG_WINDOW_NAME)
      ELSE set_logfile_focus(self, self.logfile_names[previous_i + 1])

\* App::new with opt.files = files and opt.debug_window = debug_window, every
\* logfile empty or yet to be written
App_new(files, debug_window) ==
  LET name_for_focus == files[1]
      app0 == [ opt                |-> [ debug_window |-> debug_window,
                                         lines_max |-> MaxContent ],
                dash_state         |-> [ debug_window |-> debug_window,
                                         debug_window_has_focus |-> FALSE ],
                monitors           |-> [f \in {files[i] : i \in 1..Len(files)} |->
                                          LogMonitor_new(Position(files, f), f, MaxContent)],
                logfile_with_focus |-> name_for_focus,
                logfile_names      |-> files ]
  IN  set_logfile_focus(app0, name_for_focus)

\* ------------------------------------------------------------ behaviour
Init ==
  /\ metrics = VaultMetrics_new(TimelineSteps)
  /\ lastLine = None
  /\ result = None
  /\ app = App_new(LogfileNames, FALSE)
  /\ appended = [f \in DOMAIN app.monitors |-> <<>>]

\* pub fn gather_metrics(&mut self, line: &str) -> Result<(), std::io::Error>
GatherMetrics(line) ==
  /\ Len(metrics.log_history) < MaxHistory
  /\ metrics' = gather_metrics(metrics, line)
  /\ lastLine' = Some(line)
  /\ result' = Some("Ok")
  /\ UNCHANGED <<app, appended>>

\* a line of the log arrives
IngestLine == \E line \in Lines : GatherMetrics(line)

Next == IngestLine

Spec == Init /\ [][Next]_vars

\* a line of a log that differs in its times arrives
IngestClockLine == \E line \in ClockLines : GatherMetrics(line)

NextClock == IngestClockLine

SpecClock == Init /\ [][NextClock]_vars

\* a line of a log of member counts and vault stages arrives
IngestStateLine == \E line \in StateLines : GatherMetrics(line)

NextState == IngestStateLine

SpecState == Init /\ [][NextState]_vars

\* the App after construction, with or without --debug-window
InitApp ==
  /\ metrics = VaultMetrics_new(TimelineSteps)
  /\ lastLine = None
  /\ result = None
  /\ app \in {App_new(LogfileNames, debug_window) : debug_window \in BOOLEAN}
  /\ appended = [f \in DOMAIN app.monitors |-> <<>>]

\* pub fn append_to_content(&mut self, text: &str) on the monitor of a logfile
AppendToContent(name, text) ==
  /\ Len(appended[name]) < MaxAppended
  /\ app' = [app EXCEPT !.monitors[name] = append_to_content(@, text)]
  /\ appended' = [appended EXCEPT ![name] = Append(@, text)]
  /\ UNCHANGED <<metrics, lastLine, result>>

\* a line of one of the logfiles arrives
LineArrives ==
  \E name \in DOMAIN app.monitors, text \in AppLines : AppendToContent(name, text)

\* pub fn set_logfile_focus(&mut self, logfile_name: &String)
SetLogfileFocus ==
  \E logfile_name \in DOMAIN app.monitors \cup {DEBUG_WINDOW_NAME, UnknownName} :
    /\ app' = set_logfile_focus(app, logfile_name)
    /\ UNCHANGED <<metrics, lastLine, result, appended>>

ChangeFocusNext ==
  /\ app' = change_focus_next(app)
  /\ UNCHANGED <<metrics, lastLine, result, appended>>

ChangeFocusPrevious ==
  /\ app' = change_focus_previous(app)
  /\ UNCHANGED <<metrics, lastLine, result, appended>>

NextApp == LineArrives \/ SetLogfileFocus \/ ChangeFocusNext \/ ChangeFocusPrevious

SpecApp == InitApp /\ [][NextApp]_vars

\* ------------------------------------------------- what the claims speak of
TheTimelines == {metrics.puts_timeline, metrics.gets_timeline, metrics.errors_timeline}

\* every BucketSet of every timeline
TheBucketSets == {tl.bucket_sets[name] : tl \in TheTimelines, name \in BucketSetNames}

\* the instants the lines of the model carry
Instants == {Rfc3339[t] : t \in DOMAIN Rfc3339}

\* the times of the records ingested so far, in order of arrival
SuppliedTimes ==
  LET timed == SelectSeq(metrics.log_history, LAMBDA e : ~is_none(e.time))
  IN  [i \in 1..Len(timed) |-> unwrap(timed[i].time)]

\* the first time supplied: every BucketSet is anchored on it
AnchorTime == SuppliedTimes[1]

\* the latest time supplied
LatestTime ==
  CHOOSE t \in {SuppliedTimes[i] : i \in 1..Len(SuppliedTimes)} :
    \A i \in 1..Len(SuppliedTimes) : SuppliedTimes[i] <= t

\* the bucket boundaries anchor + i * duration that lie strictly before time
BoundariesCrossed(anchor, duration, time) ==
  IF time <= anchor THEN 0 ELSE (time - anchor - 1) \div duration

Min(a, b) == IF a <= b THEN a ELSE b

Zeros(n) == [i \in 1..n |-> 0]

\* the last n elements of s
LastN(s, n) == SubSeq(s, Len(s) - n + 1, Len(s))

\* C1: no BucketSet of any timeline ever holds more than max_buckets buckets.
C1_BucketCountBounded ==
  \A bs \in TheBucketSets : Len(bs.buckets) <= bs.max_buckets

\* a BucketSet is full and has marched past more boundaries than it can hold
C1_Witness ==
  /\ SuppliedTimes # <<>>
  /\ \E bs \in TheBucketSets :
       /\ Len(bs.buckets) = bs.max_buckets
       /\ BoundariesCrossed(AnchorTime, bs.bucket_duration, LatestTime) >= bs.max_buckets

\* C2 as claimed: after an advance to a time that is not before the current
\* bucket start, the time is strictly before the end of the current bucket.
C2_BoundaryStartsNewBucket ==
  \A bs \in TheBucketSets :
    (~is_none(bs.bucket_time) /\ unwrap(metrics.most_recent) >= unwrap(bs.bucket_time))
      => unwrap(metrics.most_recent) < unwrap(bs.bucket_time) + bs.bucket_duration

\* C2 as amended: a new zero bucket is started for as long as the end of the
\* current bucket is strictly before the new time; after an advance to a time
\* that is not before the current bucket start the time is at most the end of
\* the current bucket, and a bucket that is not the first one was started by a
\* time strictly after its start.
C2_BoundaryStaysInBucket ==
  \A bs \in TheBucketSets :
    ~is_none(bs.bucket_time) =>
      /\ unwrap(metrics.most_recent) >= unwrap(bs.bucket_time)
           => unwrap(metrics.most_recent) <= unwrap(bs.bucket_time) + bs.bucket_duration
      /\ unwrap(bs.bucket_time) # AnchorTime => LatestTime > unwrap(bs.bucket_time)
      /\ \A t \in Instants :
           LET marched == UpdateBucketSet(bs, Some(t))
               steps == (unwrap(marched.bucket_time) - unwrap(bs.bucket_time))
                          \div bs.bucket_duration
           IN  /\ unwrap(marched.bucket_time)
                    = unwrap(bs.bucket_time) + steps * bs.bucket_duration
               /\ steps = BoundariesCrossed(unwrap(bs.bucket_time), bs.bucket_duration, t)
               /\ marched.buckets
                    = LastN(bs.buckets \o Zeros(steps),
                            Min(bs.max_buckets, Len(bs.buckets) + steps))

\* the latest time lies exactly on the end of the current one minute bucket
C2_Witness ==
  /\ ~is_none(metrics.most_recent)
  /\ LET bs == metrics.gets_timeline.bucket_sets[ONE_MINUTE_NAME]
     IN  /\ unwrap(metrics.most_recent) = unwrap(bs.bucket_time) + bs.bucket_duration
         /\ Len(bs.buckets) = 1

\* C3: a BucketSet anchored at the first time holds min(k + 1, m) buckets once
\* the time has passed k of its boundaries, and an advance keeps the most
\* recent buckets in their order: it drops buckets from the old end only.
C3_BucketsAfterBoundaries ==
  /\ \A bs \in TheBucketSets :
       ~is_none(bs.bucket_time) =>
         Len(bs.buckets)
           = Min(BoundariesCrossed(AnchorTime, bs.bucket_duration, LatestTime) + 1,
                 bs.max_buckets)
  /\ \A tl \in TheTimelines, t \in Instants, name \in BucketSetNames :
       LET bs == tl.bucket_sets[name]
           after == update_current_time(tl, Some(t)).bucket_sets[name]
           added == BoundariesCrossed(unwrap(bs.bucket_time), bs.bucket_duration, t)
       IN  ~is_none(bs.bucket_time) =>
             after.buckets = LastN(bs.buckets \o Zeros(added),
                                   Min(bs.max_buckets, Len(bs.buckets) + added))

\* the one minute BucketSet has dropped its oldest bucket and still holds a
\* counted bucket in front of the current one
C3_Witness ==
  /\ SuppliedTimes # <<>>
  /\ LET bs == metrics.gets_timeline.bucket_sets[ONE_MINUTE_NAME]
     IN  /\ BoundariesCrossed(AnchorTime, bs.bucket_duration, LatestTime) >= bs.max_buckets
         /\ Len(bs.buckets) = bs.max_buckets
         /\ bs.buckets[Len(bs.buckets) - 1] > 0

\* C4: advancing a timeline to the same time twice in a row changes nothing
\* the second time.
C4_AdvanceIdempotent ==
  \A tl \in TheTimelines, t \in {None} \cup {Some(i) : i \in Instants} :
    LET once == update_current_time(tl, t)
    IN  update_current_time(once, t) = once

\* the same time was supplied twice in a row after the buckets had marched
C4_Witness ==
  /\ Len(SuppliedTimes) >= 3
  /\ SuppliedTimes[Len(SuppliedTimes)] = SuppliedTimes[Len(SuppliedTimes) - 1]
  /\ LET bs == metrics.puts_timeline.bucket_sets[ONE_MINUTE_NAME]
     IN  unwrap(bs.bucket_time) > AnchorTime

\* C5: an advance of an anchored BucketSet to a time before its anchor, or to a
\* time not later than the time supplied before, changes nothing.
C5_BackwardAdvanceNoChange ==
  \A tl \in TheTimelines, t \in Instants, name \in BucketSetNames :
    LET bs == tl.bucket_sets[name]
    IN  (~is_none(bs.bucket_time) /\ (t < AnchorTime \/ t <= unwrap(metrics.most_recent)))
          => update_current_time(tl, Some(t)).bucket_sets[name] = bs

\* the last time supplied is before the anchor and before the time supplied
\* before it, and the buckets hold a count
C5_Witness ==
  /\ Len(SuppliedTimes) >= 3
  /\ SuppliedTimes[Len(SuppliedTimes)] < AnchorTime
  /\ SuppliedTimes[Len(SuppliedTimes)] < SuppliedTimes[Len(SuppliedTimes) - 1]
  /\ metrics.gets_timeline.bucket_sets[ONE_MINUTE_NAME].buckets = <<1, 0>>

\* the line is decoded: by the primary grammar or as a process start
Decodable(line) == line \in TimedLines \cup UntimedLines \cup StartLines

\* the tokens between the first activity marker and the comma after it
LabelOf(line) ==
  LET marker == CHOOSE i \in 1..Len(line) :
                  /\ line[i] = RESPONSE_PATTERN
                  /\ \A j \in 1..(i - 1) : line[j] # RESPONSE_PATTERN
      comma == CHOOSE i \in (marker + 1)..Len(line) :
                 /\ line[i] = COMMA
                 /\ \A j \in (marker + 1)..(i - 1) : line[j] # COMMA
  IN  IF \E i \in 1..Len(line) : line[i] = RESPONSE_PATTERN
      THEN IF \E i \in (marker + 1)..Len(line) : line[i] = COMMA
           THEN SubSeq(line, marker + 1, comma - 1)
           ELSE <<>>
      ELSE <<>>

\* the activity label of the line begins with the characters of word
LabelStartsWith(line, word) == LabelOf(line) # <<>> /\ LabelOf(line)[1] = word

HasMarker(line) == \E i \in 1..Len(line) : line[i] = RESPONSE_PATTERN

HasStatePattern(line) ==
  \E i \in 1..Len(line) :
    line[i] \in {ELDERS_PREFIX, ADULTS_PREFIX, PROMOTED_PREFIX, INITIALIZING_PREFIX}

\* the buckets and bucket start times of the three timelines
TimelinesOf(self) == <<self.puts_timeline, self.gets_timeline, self.errors_timeline>>

\* tl with one more in the last bucket of every granularity, nothing else changed
OneMoreInLastBuckets(tl) ==
  [tl EXCEPT !.bucket_sets =
     [name \in BucketSetNames |->
        [tl.bucket_sets[name] EXCEPT
           !.buckets = [i \in 1..Len(@) |-> IF i = Len(@) THEN @[i] + 1 ELSE @[i]]]]]

EldersNumber(line) ==
  LET at == CHOOSE i \in 1..Len(line) : line[i] = ELDERS_PREFIX
      digits == IF line[at + 1] = SPACE THEN at + 2 ELSE at + 1
  IN  UsizeDigits[line[digits]]

SaysEldersNumber(line) ==
  \E i \in 1..(Len(line) - 1) :
    /\ line[i] = ELDERS_PREFIX
    /\ \/ line[i + 1] \in DOMAIN UsizeDigits
       \/ i + 2 <= Len(line) /\ line[i + 1] = SPACE /\ line[i + 2] \in DOMAIN UsizeDigits

\* C7 as claimed: ingesting a decodable line without activity marker that says
\* "No. of Elders: n" sets the elder count to n and leaves the adult count and
\* the age bracket as they are.
C7_EldersCountSet ==
  [][ LET line == unwrap(lastLine')
      IN  (/\ line \in TimedLines \cup UntimedLines
           /\ SaysEldersNumber(line)
           /\ ~HasMarker(line))
            => /\ metrics'.elders = EldersNumber(line)
               /\ metrics'.adults = metrics.adults
               /\ metrics'.agebracket = metrics.agebracket ]_vars

\* the counters and the lifecycle state as reset_metrics leaves them
Cleared(self) ==
  /\ self.activity_gets = 0
  /\ self.activity_puts = 0
  /\ self.activity_errors = 0
  /\ self.activity_other = 0
  /\ self.adults = 0
  /\ self.elders = 0
  /\ self.agebracket = "Infant"

\* what reset_metrics has to leave alone
Kept(self) ==
  <<TimelinesOf(self), self.log_history, self.activity_history, self.most_recent>>

\* C8: reset_metrics, and with it the decoding of a process start line, clears
\* the four counters, the adult and elder counts and the age bracket, and
\* leaves the timelines, both histories and the most recent time as they are.
C8_ResetClearsCountersOnly ==
  /\ Cleared(reset_metrics(metrics))
  /\ Kept(reset_metrics(metrics)) = Kept(metrics)
  /\ \A line \in StartLines :
       /\ Cleared(DecodeOrStart(metrics, line).self)
       /\ Kept(DecodeOrStart(metrics, line).self) = Kept(metrics)

\* a plain process start line has been ingested after counted activity: the
\* counters are cleared, the timelines and the histories still hold the activity
C8_Witness ==
  /\ lastLine = Some(<<RUNNING_PREFIX, "v0.24.0">>)
  /\ Cleared(metrics)
  /\ Len(metrics.activity_history) = 2
  /\ Len(metrics.log_history) = 3
  /\ metrics.gets_timeline.bucket_sets[ONE_MINUTE_NAME].buckets = <<1, 0>>
  /\ metrics.puts_timeline.bucket_sets[ONE_MINUTE_NAME].buckets = <<0, 1>>
  /\ metrics.most_recent = Some(61)

\* C9 as claimed: right after a process start line has been ingested, whatever
\* else the line holds, the counters and the lifecycle state are cleared.
C9_ClearedAfterStartLine ==
  (~is_none(lastLine) /\ unwrap(lastLine) \in StartLines) => Cleared(metrics)

\* C9 as amended: the reset is applied while the process start line is decoded,
\* before the extraction for that line; right after the line has been ingested
\* the counters hold what the line itself was counted for and nothing from
\* before it, and they and the lifecycle state are cleared when the line holds
\* neither the activity marker nor a state pattern.
C9_ResetBeforeExtraction ==
  (~is_none(lastLine) /\ unwrap(lastLine) \in StartLines) =>
    LET line == unwrap(lastLine)
    IN  /\ metrics.activity_gets = IF LabelStartsWith(line, "Get") THEN 1 ELSE 0
        /\ metrics.activity_puts = IF LabelStartsWith(line, "Mut") THEN 1 ELSE 0
        /\ metrics.activity_other
             = IF LabelOf(line) # <<>> /\ ~LabelStartsWith(line, "Get")
                                       /\ ~LabelStartsWith(line, "Mut")
               THEN 1 ELSE 0
        /\ metrics.activity_errors = 0
        /\ (~HasMarker(line) /\ ~HasStatePattern(line)) => Cleared(metrics)
        /\ HasMarker(line) =>
             metrics.adults = 0 /\ metrics.elders = 0 /\ metrics.agebracket = "Infant"

\* a process start line that holds a Get response has been ingested after two
\* counted gets: the counter holds the one of the line itself
C9_Witness ==
  /\ ~is_none(lastLine)
  /\ unwrap(lastLine) \in StartLines
  /\ LabelStartsWith(unwrap(lastLine), "Get")
  /\ Len(metrics.activity_history) = 3
  /\ metrics.activity_gets = 1

\* C10: a line of neither grammar is ingested with success and changes nothing:
\* no counter, count, age bracket, time, process start metadata, timeline or
\* history.
C10_UnparseableLineIgnored ==
  /\ \A line \in OtherLines : gather_metrics(metrics, line) = metrics
  /\ ~is_none(lastLine) => result = Some("Ok")

\* a line of neither grammar that holds a Get response arrived after one
\* counted get and left one record and one count
C10_Witness ==
  /\ ~is_none(lastLine)
  /\ unwrap(lastLine) \in OtherLines
  /\ HasMarker(unwrap(lastLine))
  /\ result = Some("Ok")
  /\ Len(metrics.log_history) = 1
  /\ Len(metrics.activity_history) = 1
  /\ metrics.activity_gets = 1

\* the last element of a sequence that is not empty
Last(s) == s[Len(s)]

\* C11 as claimed: ingesting a line whose category, field widths and source tag
\* are well formed but whose time field is not a date and time appends nothing
\* to the log history and changes no metric.
C11_BadTimeRejected ==
  [][ unwrap(lastLine') \in UntimedLines => metrics' = metrics ]_vars

\* C11 as amended: such a line is accepted by the primary grammar and decoded
\* to a record without a time; ingest fills the time in from the most recent
\* one, appends the record to the log history and extracts from the line as
\* from any other.
C11_BadTimeDecodedWithoutTime ==
  \A line \in UntimedLines :
    LET after == gather_metrics(metrics, line)
    IN  /\ ~is_none(decode(line))
        /\ is_none(unwrap(decode(line)).time)
        /\ unwrap(decode(line)).category = line[1]
        /\ Len(after.log_history) = Len(metrics.log_history) + 1
        /\ Last(after.log_history).logstring = line
        /\ Last(after.log_history).time = metrics.most_recent
        /\ after.most_recent = metrics.most_recent
        /\ LabelStartsWith(line, "Get") => after.activity_gets = metrics.activity_gets + 1

\* a line with a time field that is no time and a Get response has been
\* ingested after a timed line: it is in the history under the time of the
\* line before it, and it was counted
C11_Witness ==
  /\ ~is_none(lastLine)
  /\ unwrap(lastLine) \in UntimedLines
  /\ LabelStartsWith(unwrap(lastLine), "Get")
  /\ Len(metrics.log_history) = 2
  /\ Last(metrics.log_history).logstring = unwrap(lastLine)
  /\ Last(metrics.log_history).time = Some(61)
  /\ metrics.activity_gets = 1

\* the line holds prefix, and what follows its first occurrence up to the end
\* of the line is not the digits of an unsigned integer
MalformedPayload(line, prefix) ==
  \E i \in 1..Len(line) :
    /\ line[i] = prefix
    /\ \A j \in 1..(i - 1) : line[j] # prefix
    /\ ~(i + 1 = Len(line) /\ line[i + 1] \in DOMAIN UsizeDigits)

\* the ingest of line has appended its record to the log history
RecordAppended(before, after, line) ==
  /\ Len(after.log_history) = Len(before.log_history) + 1
  /\ SubSeq(after.log_history, 1, Len(before.log_history)) = before.log_history
  /\ Last(after.log_history).logstring = line

CountersOf(self) ==
  <<self.activity_gets, self.activity_puts, self.activity_errors, self.activity_other>>

SaysStage(line) ==
  /\ Len(line) >= 2
  /\ line[Len(line) - 1] \in {PROMOTED_PREFIX, INITIALIZING_PREFIX}
  /\ ~HasMarker(line)
  /\ \A i \in 1..Len(line) : line[i] \notin {ELDERS_PREFIX, ADULTS_PREFIX}

\* the age bracket the word names
StageNamed(word) == IF word \in {"Infant", "Adult", "Elder"} THEN word ELSE "Unknown"

\* C14 as claimed: ingesting a decoded line that says "Vault promoted to " or
\* "Initializing new Vault as " and one word sets the age bracket to Infant,
\* Adult or Elder when the word is that name and to Unknown for any other
\* word, and the line is ingested to the end.
C14_StageWordSetsAgebracket ==
  [][ LET line == unwrap(lastLine')
      IN  (line \in StateLines /\ SaysStage(line)) =>
            /\ metrics'.agebracket = StageNamed(Last(line))
            /\ RecordAppended(metrics, metrics', line) ]_vars

\* the line holds an activity label that starts with neither "Get" nor "Mut"
HasOtherLabel(line) ==
  /\ LabelOf(line) # <<>>
  /\ ~LabelStartsWith(line, "Get")
  /\ ~LabelStartsWith(line, "Mut")

ValidPayload(line, prefix) ==
  /\ Len(line) >= 2
  /\ line[Len(line) - 1] = prefix
  /\ \A j \in 1..(Len(line) - 2) : line[j] # prefix
  /\ Last(line) \in DOMAIN UsizeDigits

\* which of the four extractions have left a trace between before and after
Applied(before, after) ==
  {x \in {"activity", "elders", "adults", "agebracket"} :
     \/ x = "activity" /\ after.activity_history # before.activity_history
     \/ x = "elders" /\ after.elders # before.elders
     \/ x = "adults" /\ after.adults # before.adults
     \/ x = "agebracket" /\ after.agebracket # before.agebracket}

\* C16: to a decoded line that is no process start line ingest applies at most
\* one of activity extraction, elder count, adult count and age bracket, the
\* first in that order that matches: a line with the activity marker changes
\* no count and no age bracket, a line whose elder count is set has no adult
\* count and no age bracket set, and a line whose adult count is set has no
\* age bracket set.
C16_FirstMatchOnly ==
  \A line \in (StateLines \cup TimedLines \cup UntimedLines) \ {<<>>} :
    ~starts_with(line, RUNNING_PREFIX) =>
      LET after == gather_metrics(metrics, line)
      IN  /\ Cardinality(Applied(metrics, after)) <= 1
          /\ HasMarker(line) => Applied(metrics, after) \subseteq {"activity"}
          /\ (~HasMarker(line) /\ ValidPayload(line, ELDERS_PREFIX)) =>
               /\ after.elders = UsizeDigits[Last(line)]
               /\ Applied(metrics, after) \subseteq {"elders"}
          /\ (~HasMarker(line) /\ ValidPayload(line, ADULTS_PREFIX)) =>
               /\ after.adults = UsizeDigits[Last(line)]
               /\ Applied(metrics, after) \subseteq {"adults"}

\* a line with a Get response and "No. of Elders:7" has been counted as a Get
\* and has left the elder count at 0; before it a line with a promotion and
\* "No. of Adults:12" has set the adult count and left the age bracket
C16_Witness ==
  /\ lastLine = Some(LineHead(T61) \o GetThenEldersText)
  /\ metrics.activity_gets = 1
  /\ metrics.elders = 0
  /\ metrics.adults = 12
  /\ metrics.agebracket = "Infant"
  /\ metrics.log_history[1].logstring = LineHead(T61) \o PromotedThenAdultsText

\* C17: a decoded line that carries a time makes that time the most recent
\* one; the record of a decoded line that carries none is appended with the
\* most recent time, which stays as it is.  So once a record has a time the
\* most recent time is never absent again and every later record has a time.
C17_TimeBackfilled ==
  /\ \A line \in TimedLines :
       LET after == gather_metrics(metrics, line)
       IN  /\ after.most_recent = Some(Rfc3339[line[3]])
           /\ Last(after.log_history).time = Some(Rfc3339[line[3]])
  /\ \A line \in UntimedLines \cup StartLines :
       LET after == gather_metrics(metrics, line)
       IN  /\ RecordAppended(metrics, after, line)
           /\ Last(after.log_history).time = metrics.most_recent
           /\ after.most_recent = metrics.most_recent
  /\ \A i \in 1..Len(metrics.log_history) :
       ~is_none(metrics.log_history[i].time) =>
         /\ ~is_none(metrics.most_recent)
         /\ \A j \in i..Len(metrics.log_history) : ~is_none(metrics.log_history[j].time)

\* a line without a time came first and has none in the history; a timed line
\* followed, and the line without a time after it carries the time of that one
C17_Witness ==
  /\ Len(metrics.log_history) = 3
  /\ metrics.log_history[1].logstring \in UntimedLines
  /\ is_none(metrics.log_history[1].time)
  /\ metrics.log_history[2].logstring \in TimedLines
  /\ metrics.log_history[3].logstring \in UntimedLines \cup StartLines
  /\ metrics.log_history[3].time = Some(61)
  /\ metrics.most_recent = Some(61)

\* C18: every BucketSet holds at least one bucket in every reachable state,
\* before a time is anchored and after every advance and eviction, so that
\* the increment has a bucket to add to; the increment adds exactly 1 to the
\* last bucket and changes no other bucket, not the number of buckets and not
\* the current bucket start time.
C18_CurrentBucketIncremented ==
  /\ \A bs \in TheBucketSets : Len(bs.buckets) >= 1
  /\ \A tl \in TheTimelines, name \in BucketSetNames :
       LET bs == tl.bucket_sets[name]
           after == increment_value(tl).bucket_sets[name]
       IN  /\ Len(after.buckets) = Len(bs.buckets)
           /\ after.buckets[Len(bs.buckets)] = bs.buckets[Len(bs.buckets)] + 1
           /\ \A i \in 1..(Len(bs.buckets) - 1) : after.buckets[i] = bs.buckets[i]
           /\ after.bucket_time = bs.bucket_time
           /\ after.bucket_duration = bs.bucket_duration
           /\ after.max_buckets = bs.max_buckets

\* the one minute BucketSet has dropped buckets, is full, and holds a count in
\* its last bucket only
C18_Witness ==
  /\ SuppliedTimes # <<>>
  /\ LET bs == metrics.gets_timeline.bucket_sets[ONE_MINUTE_NAME]
     IN  /\ BoundariesCrossed(AnchorTime, bs.bucket_duration, LatestTime) >= bs.max_buckets
         /\ Len(bs.buckets) = bs.max_buckets
         /\ Last(bs.buckets) = 1
         /\ bs.buckets[1] = 0

\* C19: one advance of an anchored BucketSet over a gap of several bucket
\* durations moves the current bucket start by one duration for every boundary
\* crossed and appends one zero bucket for each (the oldest buckets dropped
\* beyond the maximum); for times t1 <= t2 the advance straight to t2 gives
\* the buckets and bucket start time that the advance to t1 and then to t2
\* gives.
C19_GapFilledBucketByBucket ==
  \A tl \in TheTimelines, name \in BucketSetNames, t2 \in Instants :
    LET bs == tl.bucket_sets[name]
        direct == update_current_time(tl, Some(t2)).bucket_sets[name]
        added == BoundariesCrossed(unwrap(bs.bucket_time), bs.bucket_duration, t2)
    IN  ~is_none(bs.bucket_time) =>
          /\ unwrap(direct.bucket_time) = unwrap(bs.bucket_time) + added * bs.bucket_duration
          /\ Len(direct.buckets) = Min(bs.max_buckets, Len(bs.buckets) + added)
          /\ \A i \in 1..Min(added, Len(direct.buckets)) :
               direct.buckets[Len(direct.buckets) - i + 1] = 0
          /\ \A t1 \in Instants :
               t1 <= t2 =>
                 update_current_time(update_current_time(tl, Some(t1)), Some(t2))
                     .bucket_sets[name] = direct

\* two times were supplied, the second more than two one minute buckets after
\* the first, and the one minute BucketSet has moved on by all of them
C19_Witness ==
  /\ Len(SuppliedTimes) = 2
  /\ LET bs == metrics.gets_timeline.bucket_sets[ONE_MINUTE_NAME]
     IN  /\ SuppliedTimes[2] - SuppliedTimes[1] > 2 * bs.bucket_duration
         /\ SuppliedTimes[2] - SuppliedTimes[1] < 4 * bs.bucket_duration
         /\ unwrap(bs.bucket_time) = AnchorTime + 3 * bs.bucket_duration
         /\ Len(bs.buckets) = Min(bs.max_buckets, 4)
         /\ Last(bs.buckets) = 0

\* C20: every decoded line advances the puts, gets and errors timelines to the
\* same most recent time, whether or not the line is counted on one of them;
\* in every reachable state the three BucketSets of a granularity have the
\* same current bucket start time and the same number of buckets.
C20_TimelinesAdvanceTogether ==
  /\ \A name \in BucketSetNames :
       LET puts == metrics.puts_timeline.bucket_sets[name]
           gets == metrics.gets_timeline.bucket_sets[name]
           errors == metrics.errors_timeline.bucket_sets[name]
       IN  /\ puts.bucket_time = gets.bucket_time
           /\ gets.bucket_time = errors.bucket_time
           /\ Len(puts.buckets) = Len(gets.buckets)
           /\ Len(gets.buckets) = Len(errors.buckets)
  /\ \A line \in Lines :
       Decodable(line) =>
         LET after == gather_metrics(metrics, line)
         IN  \A i \in 1..3, name \in BucketSetNames :
               LET was == TimelinesOf(metrics)[i].bucket_sets[name]
                   now == TimelinesOf(after)[i].bucket_sets[name]
                   advanced == UpdateBucketSet(was, after.most_recent)
               IN  /\ now.bucket_time = advanced.bucket_time
                   /\ Len(now.buckets) = Len(advanced.buckets)

\* a line that is counted nowhere has moved all three one minute BucketSets on
\* from the anchor; the gets timeline alone holds a count
C20_Witness ==
  /\ lastLine = Some(LineHead(T61) \o PlainText)
  /\ metrics.gets_timeline.bucket_sets[ONE_MINUTE_NAME].buckets = <<1, 0>>
  /\ metrics.puts_timeline.bucket_sets[ONE_MINUTE_NAME].buckets = <<0, 0>>
  /\ metrics.errors_timeline.bucket_sets[ONE_MINUTE_NAME].buckets = <<0, 0>>
  /\ unwrap(metrics.errors_timeline.bucket_sets[ONE_MINUTE_NAME].bucket_time) > AnchorTime

\* C21: after any sequence of append_to_content calls on a LogMonitor its
\* content holds at most max_content lines, and they are the lines appended
\* last, in the order they arrived.
C21_ContentHoldsLatestLines ==
  \A name \in DOMAIN app.monitors :
    LET monitor == app.monitors[name]
        items == monitor.content.items
    IN  /\ Len(items) <= monitor.max_content
        /\ items = LastN(appended[name], Min(monitor.max_content, Len(appended[name])))

\* a LogMonitor was given more than max_content lines, and the lines it holds
\* are not the lines it was given first
C21_Witness ==
  \E name \in DOMAIN app.monitors :
    LET monitor == app.monitors[name]
    IN  /\ Len(appended[name]) > monitor.max_content
        /\ Len(monitor.content.items) = monitor.max_content
        /\ monitor.content.items # SubSeq(appended[name], 1, monitor.max_content)

RECURSIVE SumSeq(_)
SumSeq(s) == IF s = <<>> THEN 0 ELSE Head(s) + SumSeq(Tail(s))

\* the number of activity records whose label begins with the characters of word
RecordsLabelled(history, word) ==
  Cardinality({i \in 1..Len(history) :
                 history[i].activity # <<>> /\ history[i].activity[1] = word})

\* the activity records of the log records that hold a label, in their order
ActivityOf(entries) ==
  LET labelled == SelectSeq(entries, LAMBDA e : LabelOf(e.logstring) # <<>>)
  IN  [i \in 1..Len(labelled) |->
         ActivityEntry_new(labelled[i], LabelOf(labelled[i].logstring))]

\* the place in the log history of the last process start line, 0 without one
LastStart(self) ==
  IF \E i \in 1..Len(self.log_history) : self.log_history[i].category = "START"
  THEN CHOOSE i \in 1..Len(self.log_history) :
         /\ self.log_history[i].category = "START"
         /\ \A j \in (i + 1)..Len(self.log_history) :
              self.log_history[j].category # "START"
  ELSE 0

\* the log records from place first on
LogFrom(self, first) == SubSeq(self.log_history, first, Len(self.log_history))

\* no bucket has been dropped from the BucketSet
NoEviction(bs) ==
  \/ is_none(bs.bucket_time)
  \/ BoundariesCrossed(AnchorTime, bs.bucket_duration, LatestTime) + 1 <= bs.max_buckets

\* the buckets of every gets (puts) BucketSet that has dropped none add up to
\* the number of Get (Mut) records of the activity history
SumsMatchHistory(self) ==
  /\ self.activity_history = ActivityOf(self.log_history)
  /\ \A name \in BucketSetNames :
       /\ NoEviction(self.gets_timeline.bucket_sets[name]) =>
            SumSeq(self.gets_timeline.bucket_sets[name].buckets)
              = RecordsLabelled(self.activity_history, "Get")
       /\ NoEviction(self.puts_timeline.bucket_sets[name]) =>
            SumSeq(self.puts_timeline.bucket_sets[name].buckets)
              = RecordsLabelled(self.activity_history, "Mut")

\* C22 as claimed: while a gets (puts) BucketSet has dropped no bucket its
\* buckets add up to the number of Get (Mut) records of the activity history,
\* process start lines or not; the gets and puts counters are the numbers of
\* such records appended after the last process start line.
C22_CountersAfterStartLine ==
  /\ SumsMatchHistory(metrics)
  /\ metrics.activity_gets
       = RecordsLabelled(ActivityOf(LogFrom(metrics, LastStart(metrics) + 1)), "Get")
  /\ metrics.activity_puts
       = RecordsLabelled(ActivityOf(LogFrom(metrics, LastStart(metrics) + 1)), "Mut")

\* C22 as amended: while a gets (puts) BucketSet has dropped no bucket its
\* buckets add up to the number of Get (Mut) records of the activity history,
\* process start lines or not; the gets and puts counters are the numbers of
\* such records appended from the last process start line on, the record of
\* that line itself included.
C22_CountersFromStartLine ==
  /\ SumsMatchHistory(metrics)
  /\ LET first == IF LastStart(metrics) = 0 THEN 1 ELSE LastStart(metrics)
     IN  /\ metrics.activity_gets
               = RecordsLabelled(ActivityOf(LogFrom(metrics, first)), "Get")
         /\ metrics.activity_puts
               = RecordsLabelled(ActivityOf(LogFrom(metrics, first)), "Mut")

\* a process start line that holds a Get response came between two counted
\* gets: the buckets add up to three, the counter holds two
C22_Witness ==
  /\ Len(metrics.log_history) = 3
  /\ LastStart(metrics) = 2
  /\ LabelStartsWith(metrics.log_history[2].logstring, "Get")
  /\ metrics.activity_gets = 2
  /\ RecordsLabelled(metrics.activity_history, "Get") = 3
  /\ SumSeq(metrics.gets_timeline.bucket_sets[ONE_MINUTE_NAME].buckets) = 3

\* C23: no sequence of ingested lines counts an error: in every reachable
\* state the errors counter is 0 and every bucket of every BucketSet of the
\* errors timeline is 0, and no line changes that.
C23_ErrorsNeverCounted ==
  /\ metrics.activity_errors = 0
  /\ \A name \in BucketSetNames :
       LET buckets == metrics.errors_timeline.bucket_sets[name].buckets
       IN  \A i \in 1..Len(buckets) : buckets[i] = 0
  /\ \A line \in Lines :
       LET after == gather_metrics(metrics, line)
       IN  /\ after.activity_errors = 0
           /\ \A name \in BucketSetNames :
                SumSeq(after.errors_timeline.bucket_sets[name].buckets) = 0

\* a get, a response of another kind and a response without a label have been
\* ingested; the errors timeline has marched and holds nothing
C23_Witness ==
  /\ ~is_none(lastLine)
  /\ HasMarker(unwrap(lastLine))
  /\ LabelOf(unwrap(lastLine)) = <<>>
  /\ Len(metrics.log_history) = 3
  /\ metrics.activity_gets = 1
  /\ metrics.activity_other = 1
  /\ metrics.activity_errors = 0
  /\ metrics.errors_timeline.bucket_sets[ONE_MINUTE_NAME].buckets = <<0, 0>>

\* C24 as claimed: after any sequence of set_logfile_focus, change_focus_next
\* and change_focus_previous calls at most one monitor has has_focus set, a
\* monitor has has_focus set exactly when its name is logfile_with_focus, and
\* the debug window has the focus exactly when logfile_with_focus is the name
\* of the debug window.
C24_FocusConsistent ==
  /\ Cardinality({name \in DOMAIN app.monitors : app.monitors[name].has_focus}) <= 1
  /\ \A name \in DOMAIN app.monitors :
       app.monitors[name].has_focus <=> (name = app.logfile_with_focus)
  /\ app.dash_state.debug_window_has_focus
       <=> (app.logfile_with_focus = DEBUG_WINDOW_NAME)

====
